---- MODULE Spec2Model ----
(***************************************************************************)
(* Universal Gear: the pipeline orchestrator (core/pipeline.py), its       *)
(* metrics (core/metrics.py) and the exception hierarchy                   *)
(* (core/exceptions.py), as a state machine.                               *)
(*                                                                         *)
(* Spec: one behaviour is one Pipeline object and one call of run().       *)
(* run() is a coroutine: it is cut where it suspends, at the await of a    *)
(* stage operation, so each action is the code between two suspension      *)
(* points.                                                                 *)
(* FairSpec: Spec, where run() goes on whenever it can and every awaited   *)
(* stage operation ends.                                                   *)
(* SpecMetrics: a PipelineMetrics to which StageMetrics are added.         *)
(* SpecRegistry: calls of register, get_plugin and list_plugins on the     *)
(* module-level registry (core/registry.py).                               *)
(* SpecContracts: contract objects (core/contracts.py) are constructed     *)
(* and their fields assigned to.                                           *)
(* SpecConcurrent: two Pipeline objects whose run() calls are interleaved  *)
(* at the suspension points.                                               *)
(* SpecAlert: ConditionalAlertEmitter.decide (stages/actions/alert.py)     *)
(* applied to simulation results.                                          *)
(*                                                                         *)
(* Python values:                                                          *)
(*   - None in an object slot is the record None;                          *)
(*   - None in a "str | None" field is NoneStr, a value no message of the  *)
(*     model equals (TLC cannot compare a string with a non-string);       *)
(*   - a list is a sequence; a contract object is a record carrying the    *)
(*     fields the orchestrator reads;                                      *)
(*   - a float in [0,1] is a fraction <<numerator, denominator>>;          *)
(*   - an exception is a record [cls, msg]; str(exc) is its msg.           *)
(***************************************************************************)
EXTENDS Integers, Sequences, FiniteSets, TLC

VARIABLES
    fail_fast,              \* Pipeline.fail_fast
    validate_transitions,   \* Pipeline.validate_transitions
    pc,                     \* where run() is: "init", "loop", "await", "returned", "raised"
    idx,                    \* position of the for loop in `stages` (1..6)
    result,                 \* the PipelineResult of this run
    calls,                  \* the stage operations invoked so far, in order, with their argument
    in_progress,            \* the stage operations invoked and not yet finished
    raised,                 \* the exceptions raised inside `await stage_fn(result)`, in order
    propagated,             \* the exception run() raised to its caller, or None
    pm,                     \* a PipelineMetrics object
    added_duration,         \* the sum of the durations of the entries added to pm
    added_failures,         \* how many entries with success=False were added to pm
    REGISTRY,               \* registry._REGISTRY
    last,                   \* the last call on the registry: its arguments and how it ended
    latest,                 \* (stage, name) -> the class of the last registration that succeeded
    obj,                    \* a contract object, or None before the first construction
    made,                   \* the last construction or assignment: its arguments and how it ended
    runs,                   \* the two Pipeline objects and the frames of their run() calls
    heap,                   \* the PipelineMetrics objects the run() calls allocated, by address
    alert                   \* the last call of ConditionalAlertEmitter.decide and how it ended

vars == <<fail_fast, validate_transitions, pc, idx, result, calls, in_progress, raised,
          propagated>>

metricsVars == <<pm, added_duration, added_failures>>

registryVars == <<REGISTRY, last, latest>>

contractVars == <<obj, made>>

runsVars == <<runs, heap>>

alertVars == <<alert>>

allVars == <<vars, metricsVars, registryVars, contractVars, runsVars, alertVars>>

(***************************************************************************)
(* Bounds of the model.                                                    *)
(***************************************************************************)
\* largest SyntheticCollectorConfig.n_records
MaxRecords == 10
\* longest list (states, hypotheses, decisions, scorecards) in a stage output
MaxItems == 1
\* most StageMetrics added to one PipelineMetrics
MaxAdds == 3
\* largest duration_seconds of a StageMetrics, in milliseconds
MaxDuration == 2
\* most scenarios passed to SimulationResult
MaxScenarios == 3
\* longest criteria list passed to Hypothesis
MaxCriteria == 2

None == [None |-> TRUE]
NoneStr == "<None>"

(***************************************************************************)
(* core/exceptions.py: the class hierarchy, and the built-in classes above *)
(* it.  Bases[c] is the direct base class of c.                            *)
(***************************************************************************)
Bases ==
    [ RuntimeError          |-> "Exception",
      AttributeError        |-> "Exception",
      UniversalGearError    |-> "Exception",
      SchemaValidationError |-> "UniversalGearError",
      CollectionError       |-> "UniversalGearError",
      DegradedSourceError   |-> "UniversalGearError",
      StageTransitionError  |-> "UniversalGearError",
      PipelineError         |-> "UniversalGearError",
      PluginNotFoundError   |-> "UniversalGearError",
      Exception             |-> "BaseException" ]

RECURSIVE IsSubclass(_, _)
IsSubclass(cls, base) ==
    IF cls = base THEN TRUE
    ELSE IF cls \in DOMAIN Bases THEN IsSubclass(Bases[cls], base)
    ELSE FALSE

Raise(cls, msg) == [cls |-> cls, msg |-> msg]

Str(exc) == exc.msg

(***************************************************************************)
(* core/contracts.py: the six stage outputs.  A list is kept as the        *)
(* sequence 1..n of its items' positions; the orchestrator reads only      *)
(* whether it is empty.                                                    *)
(***************************************************************************)
Items(n) == [i \in 1..n |-> i]

\* SyntheticCollector.collect: valid_count / n_records if n_records else 0.0
ReliabilityScore(valid_count, n_records) ==
    IF n_records # 0 THEN <<valid_count, n_records>> ELSE <<0, 1>>

DataQualityReport(total_records, valid_records) ==
    [ total_records     |-> total_records,
      valid_records     |-> valid_records,
      reliability_score |-> ReliabilityScore(valid_records, total_records) ]

CollectionResult(n_records, valid_count) ==
    [ stage          |-> "observation",
      events         |-> Items(n_records),
      quality_report |-> DataQualityReport(n_records, valid_count) ]

CompressionResult(n) == [stage |-> "compression", states |-> Items(n)]

HypothesisResult(n) == [stage |-> "hypothesis", hypotheses |-> Items(n)]

MIN_SCENARIOS == 2

SimulationResult(n) == [stage |-> "simulation", scenarios |-> Items(n)]

DecisionResult(n) == [stage |-> "decision", decisions |-> Items(n)]

FeedbackResult(n) == [stage |-> "feedback", scorecards |-> Items(n)]

(***************************************************************************)
(* Construction and assignment of contract objects.  An instance is its    *)
(* class name and the record of its fields.  Constructing a BaseModel runs *)
(* the field constraints and the validators and raises one ValidationError *)
(* carrying every failure.  Assigning to a field raises ValidationError    *)
(* when the class has ConfigDict(frozen=True); otherwise it stores the     *)
(* value, and no validator runs (no class sets validate_assignment).       *)
(***************************************************************************)
\* the classes declared with model_config = ConfigDict(frozen=True)
Frozen ==
    { "SourceMeta", "QualityFlag", "RawEvent", "DataQualityReport", "SignalValue",
      "MarketState", "ValidationCriterion", "Hypothesis", "Assumption", "Scenario",
      "DecisionDriver", "CostOfError", "Condition", "DecisionObject",
      "PredictionVsReality", "SourceDegradation", "Scorecard" }

Instance(cls, fields) == [cls |-> cls, fields |-> fields]

ValidationError(errors) ==
    IF errors = <<>> THEN None ELSE [cls |-> "ValidationError", errors |-> errors]

\* variant: `<= MIN_SCENARIOS` is never true of a list of one
at_least_two_scenarios_AtLeastOne(self) ==
    IF Len(self.scenarios) < 1
    THEN <<"Simulation requires at least 2 scenarios">>
    ELSE <<>>

\* SimulationResult.at_least_two_scenarios: the errors it adds
at_least_two_scenarios(self) ==
    IF Len(self.scenarios) < MIN_SCENARIOS
    THEN <<"Simulation requires at least 2 scenarios">>
    ELSE <<>>

\* SimulationResult(scenarios=..., baseline=...)
NewSimulationResult(scenarios, baseline) ==
    LET self == [stage |-> "simulation", scenarios |-> scenarios, baseline |-> baseline]
    IN  [ value |-> Instance("SimulationResult", self),
          exc   |-> ValidationError(at_least_two_scenarios(self)) ]

\* Hypothesis.needs_validation
needs_validation(v) ==
    IF v = <<>> THEN <<"Hypothesis requires at least 1 validation criterion">> ELSE <<>>

\* variant: the validator accepts every list
needs_falsification_Accepting(v) == <<>>

\* Hypothesis.needs_falsification
needs_falsification(v) ==
    IF v = <<>> THEN <<"Hypothesis requires at least 1 falsification criterion">> ELSE <<>>

\* confidence: float = Field(ge=0.0, le=1.0)
confidence_in_range(c) ==
    IF c[1] < 0 \/ c[1] > c[2]
    THEN <<"Input should be in the range 0 to 1">>
    ELSE <<>>

\* Hypothesis(confidence=..., validation_criteria=..., falsification_criteria=...)
NewHypothesis(confidence, validation_criteria, falsification_criteria) ==
    LET self == [ confidence             |-> confidence,
                  validation_criteria    |-> validation_criteria,
                  falsification_criteria |-> falsification_criteria ]
    IN  [ value |-> Instance("Hypothesis", self),
          exc   |-> ValidationError(confidence_in_range(confidence)
                                        \o needs_validation(validation_criteria)
                                        \o needs_falsification(falsification_criteria)) ]

\* variant: every contract class is frozen
SetAttr_Frozen(o, field, value) ==
    [obj |-> o, exc |-> ValidationError(<<"Instance is frozen">>)]

\* o.field = value
SetAttr(o, field, value) ==
    IF o.cls \in Frozen
    THEN [obj |-> o, exc |-> ValidationError(<<"Instance is frozen">>)]
    ELSE [obj |-> [o EXCEPT !.fields[field] = value], exc |-> None]

\* variant: `<=` written for `<`
FracLess_OrEqual(a, b) == a[1] * b[2] <= b[1] * a[2]

\* a < b for fractions with positive denominators
FracLess(a, b) == a[1] * b[2] < b[1] * a[2]

(***************************************************************************)
(* core/metrics.py                                                         *)
(***************************************************************************)
\* duration_seconds (a difference of two wall-clock readings) and
\* records_in/records_out (never set by the orchestrator) decide nothing
\* in run() and are left out
StageMetrics(stage, success, error) ==
    [stage |-> stage, success |-> success, error |-> error]

PipelineMetrics == [stages |-> <<>>]

\* variant: self.stages.insert(0, metrics)
Add_Prepend(metrics, m) == [metrics EXCEPT !.stages = <<m>> \o @]

\* PipelineMetrics.add
Add(metrics, m) == [metrics EXCEPT !.stages = Append(@, m)]

\* a StageMetrics with its duration_seconds, counted in milliseconds
TimedStageMetrics(stage, duration_seconds, success, error) ==
    [ stage            |-> stage,
      duration_seconds |-> duration_seconds,
      success          |-> success,
      error            |-> error ]

\* sum(...) over a list: a left fold from 0
RECURSIVE Sum(_)
Sum(seq) ==
    IF seq = <<>> THEN 0
    ELSE Sum(SubSeq(seq, 1, Len(seq) - 1)) + seq[Len(seq)]

\* variant: the first entry is left out of the sum
total_duration_SkipFirst(metrics) ==
    Sum([k \in 1..(Len(metrics.stages) - 1) |-> metrics.stages[k + 1].duration_seconds])

\* PipelineMetrics.total_duration
total_duration(metrics) ==
    Sum([k \in 1..Len(metrics.stages) |-> metrics.stages[k].duration_seconds])

\* PipelineMetrics.all_success
all_success(metrics) ==
    \A k \in 1..Len(metrics.stages) : metrics.stages[k].success

(***************************************************************************)
(* core/pipeline.py                                                        *)
(***************************************************************************)
\* 0.1
MIN_RELIABILITY_SCORE == <<1, 10>>

PipelineResult ==
    [ collection  |-> None,
      compression |-> None,
      hypothesis  |-> None,
      simulation  |-> None,
      decision    |-> None,
      feedback    |-> None,
      metrics     |-> PipelineMetrics,
      success     |-> FALSE,
      error       |-> NoneStr ]

\* the `stages` list of run(): the stage names, in order
stages == <<"observation", "compression", "hypothesis", "simulation", "decision", "feedback">>

\* the PipelineResult field each _run_* method assigns
Slot == <<"collection", "compression", "hypothesis", "simulation", "decision", "feedback">>

\* the operation each _run_* method awaits
Operation == <<"collect", "process", "analyze", "simulate", "decide", "evaluate">>

\* the class name each _run_* method puts in its PipelineError message
ResultName == << "CollectionResult", "CompressionResult", "HypothesisResult",
                 "SimulationResult", "DecisionResult", "FeedbackResult" >>

NStages == Len(stages)

\* variant: the guard is never taken
Not_Never(x) == FALSE

\* `not x` for the value of an output slot: None is falsy, and a contract
\* object (a pydantic model defining neither __bool__ nor __len__) is truthy
Not(x) == x = None

\* the guard at the head of _run_compression .. _run_feedback
MissingInput(i) ==
    Raise("PipelineError", "No " \o ResultName[i - 1] \o " available for " \o stages[i])

\* variant: the match statement without `case "decision"`
ValidateTransition_NoDecisionCase(vt, stage, output) ==
    IF ~vt THEN None
    ELSE CASE stage = "observation" ->
                IF FracLess(output.quality_report.reliability_score, MIN_RELIABILITY_SCORE)
                THEN Raise("StageTransitionError", "Reliability score too low to proceed")
                ELSE None
           [] stage = "compression" ->
                IF output.states = <<>>
                THEN Raise("StageTransitionError", "No MarketState produced")
                ELSE None
           [] stage = "hypothesis" ->
                IF output.hypotheses = <<>>
                THEN Raise("StageTransitionError", "No hypotheses generated")
                ELSE None
           [] OTHER -> None

\* variant: without `if not self.validate_transitions: return`
ValidateTransition_Always(vt, stage, output) ==
    CASE stage = "observation" ->
            IF FracLess(output.quality_report.reliability_score, MIN_RELIABILITY_SCORE)
            THEN Raise("StageTransitionError", "Reliability score too low to proceed")
            ELSE None
      [] stage = "compression" ->
            IF output.states = <<>>
            THEN Raise("StageTransitionError", "No MarketState produced")
            ELSE None
      [] stage = "hypothesis" ->
            IF output.hypotheses = <<>>
            THEN Raise("StageTransitionError", "No hypotheses generated")
            ELSE None
      [] stage = "decision" ->
            IF output.decisions = <<>>
            THEN Raise("StageTransitionError", "No decisions generated")
            ELSE None
      [] OTHER -> None

\* _validate_transition: None when it returns, the exception when it raises
ValidateTransition(vt, stage, output) ==
    IF ~vt THEN None
    ELSE CASE stage = "observation" ->
                IF FracLess(output.quality_report.reliability_score, MIN_RELIABILITY_SCORE)
                THEN Raise("StageTransitionError", "Reliability score too low to proceed")
                ELSE None
           [] stage = "compression" ->
                IF output.states = <<>>
                THEN Raise("StageTransitionError", "No MarketState produced")
                ELSE None
           [] stage = "hypothesis" ->
                IF output.hypotheses = <<>>
                THEN Raise("StageTransitionError", "No hypotheses generated")
                ELSE None
           [] stage = "simulation" -> None
           [] stage = "decision" ->
                IF output.decisions = <<>>
                THEN Raise("StageTransitionError", "No decisions generated")
                ELSE None
           [] OTHER -> None

\* variant: the try statement without its except clause
Caught_Nothing(exc) == FALSE

\* variant: `except UniversalGearError as exc`
Caught_DomainOnly(exc) == IsSubclass(exc.cls, "UniversalGearError")

\* `except Exception as exc`
Caught(exc) == IsSubclass(exc.cls, "Exception")

\* variant: the message without the stage name
FailedAt_NoStage(stage_name, exc) == "Pipeline failed: " \o Str(exc)

\* f"Pipeline failed at '{stage_name}': {exc}"
FailedAt(stage_name, exc) == "Pipeline failed at '" \o stage_name \o "': " \o Str(exc)

\* variant: `result.success = result.metrics.all_success`
Continue_AllSuccess(res, i) ==
    IF i < NStages
    THEN [result |-> res, pc |-> "loop", idx |-> i + 1, propagated |-> None]
    ELSE [result     |-> [res EXCEPT !.success =
                              \A k \in DOMAIN res.metrics.stages : res.metrics.stages[k].success],
          pc         |-> "returned",
          idx        |-> i,
          propagated |-> None]

\* variant: a stage recorded as failed is run again
Continue_Retry(res, i) ==
    LET E == res.metrics.stages
    IN  IF ~E[Len(E)].success
        THEN [result |-> res, pc |-> "loop", idx |-> i, propagated |-> None]
        ELSE IF i < NStages
        THEN [result |-> res, pc |-> "loop", idx |-> i + 1, propagated |-> None]
        ELSE [result     |-> [res EXCEPT !.success = TRUE],
              pc         |-> "returned",
              idx        |-> i,
              propagated |-> None]

\* the end of one iteration of the for loop: the next iteration, or after
\* the last one `result.success = True` and the return
Continue(res, i) ==
    IF i < NStages
    THEN [result |-> res, pc |-> "loop", idx |-> i + 1, propagated |-> None]
    ELSE [result     |-> [res EXCEPT !.success = TRUE],
          pc         |-> "returned",
          idx        |-> i,
          propagated |-> None]

\* variant: the success entry is not appended
OnSuccess_Unrecorded(res, i) == Continue(res, i)

\* the try body after `await stage_fn(result)` has returned
OnSuccess(res, i) ==
    Continue([res EXCEPT !.metrics = Add(@, StageMetrics(stages[i], TRUE, NoneStr))], i)

\* variant: the except block without `if self.fail_fast`: it never returns
OnException_NoStop(ff, res, i, exc) ==
    Continue([res EXCEPT !.metrics = Add(@, StageMetrics(stages[i], FALSE, Str(exc)))], i)

\* variant: the except block returns whatever fail_fast is
OnException_AlwaysStop(ff, res, i, exc) ==
    [ result     |-> [res EXCEPT !.metrics = Add(@, StageMetrics(stages[i], FALSE, Str(exc))),
                                 !.error = FailedAt(stages[i], exc)],
      pc         |-> "returned",
      idx        |-> i,
      propagated |-> None ]

\* variant: the fail-fast return without the assignment to result.error
OnException_NoError(ff, res, i, exc) ==
    LET recorded == [res EXCEPT !.metrics = Add(@, StageMetrics(stages[i], FALSE, Str(exc)))]
    IN  IF ff
        THEN [result |-> recorded, pc |-> "returned", idx |-> i, propagated |-> None]
        ELSE Continue(recorded, i)

\* the except block, for an exception it catches
OnException(ff, res, i, exc) ==
    LET recorded == [res EXCEPT !.metrics = Add(@, StageMetrics(stages[i], FALSE, Str(exc)))]
    IN  IF ff
        THEN [result     |-> [recorded EXCEPT !.error = FailedAt(stages[i], exc)],
              pc         |-> "returned",
              idx        |-> i,
              propagated |-> None]
        ELSE Continue(recorded, i)

\* the try statement, given how `await stage_fn(result)` ended: exc is None
\* when it returned and the exception when it raised
StageDone(ff, res, i, exc) ==
    IF exc = None THEN OnSuccess(res, i)
    ELSE IF Caught(exc) THEN OnException(ff, res, i, exc)
    ELSE [result |-> res, pc |-> "raised", idx |-> i, propagated |-> exc]

\* variant: the output is checked and not stored in its slot
Attach_NoAssign(vt, res, i, output) ==
    [ result |-> res,
      exc    |-> IF i < NStages THEN ValidateTransition(vt, stages[i], output) ELSE None ]

\* variant: the success entry is appended before the transition check
Attach_RecordedFirst(vt, res, i, output) ==
    [ result |-> [res EXCEPT ![Slot[i]] = output,
                             !.metrics = Add(@, StageMetrics(stages[i], TRUE, NoneStr))],
      exc    |-> IF i < NStages THEN ValidateTransition(vt, stages[i], output) ELSE None ]

\* _run_collection .. _run_feedback after the awaited operation returned
\* `output`: the assignment to the slot, then the transition check (which
\* _run_feedback does not make)
Attach(vt, res, i, output) ==
    [ result |-> [res EXCEPT ![Slot[i]] = output],
      exc    |-> IF i < NStages THEN ValidateTransition(vt, stages[i], output) ELSE None ]

(***************************************************************************)
(* The stage operations (core/interfaces.py): what an operation may return *)
(* and what it may raise.  The exceptions are of classes derived from      *)
(* Exception, as the stage implementations raise.                          *)
(***************************************************************************)
Outputs(i) ==
    CASE i = 1 -> {CollectionResult(n, v) : <<n, v>> \in
                        {nv \in (0..MaxRecords) \X (0..MaxRecords) : nv[2] <= nv[1]}}
      [] i = 2 -> {CompressionResult(n) : n \in 0..MaxItems}
      [] i = 3 -> {HypothesisResult(n) : n \in 0..MaxItems}
      [] i = 4 -> {SimulationResult(n) : n \in MIN_SCENARIOS..(MIN_SCENARIOS + MaxItems - 1)}
      [] i = 5 -> {DecisionResult(n) : n \in 0..MaxItems}
      [] i = 6 -> {FeedbackResult(n) : n \in 0..MaxItems}

OpExceptions ==
    { Raise("RuntimeError", "boom"), Raise("CollectionError", "") }

(***************************************************************************)
(* Two Pipeline objects.  A Pipeline holds its two flags and its six stage *)
(* objects; `plan` is what the operation of each stage object does when it *)
(* is awaited: it returns `output`, or raises `exc`.  run() allocates its  *)
(* PipelineResult, whose default_factory allocates the PipelineMetrics:    *)
(* the heap maps the address of a PipelineMetrics to the object, and the   *)
(* metrics field of a PipelineResult in a frame holds the address.         *)
(***************************************************************************)
Runs == {1, 2}

Returns(output) == [output |-> output, exc |-> None]

Raises(exc) == [output |-> None, exc |-> exc]

\* every stage returns a non-empty output
GoodPlan ==
    << Returns(CollectionResult(1, 1)), Returns(CompressionResult(1)),
       Returns(HypothesisResult(1)), Returns(SimulationResult(MIN_SCENARIOS)),
       Returns(DecisionResult(1)), Returns(FeedbackResult(1)) >>

Plans ==
    { GoodPlan,
      [GoodPlan EXCEPT ![2] = Raises(Raise("RuntimeError", "boom"))],
      [GoodPlan EXCEPT ![1] = Returns(CollectionResult(1, 0))] }

\* Pipeline(collector, ..., fail_fast=..., validate_transitions=...)
Pipelines ==
    [fail_fast : BOOLEAN, validate_transitions : BOOLEAN, plan : Plans]

NoPipeline == [pc |-> "none"]

\* variant: one PipelineMetrics object, made once and shared as the default
NewMetrics_Shared(h) ==
    IF h = <<>> THEN [heap |-> <<PipelineMetrics>>, address |-> 1]
    ELSE [heap |-> h, address |-> 1]

\* field(default_factory=PipelineMetrics): a new object for each result
NewMetrics(h) == [heap |-> Append(h, PipelineMetrics), address |-> Len(h) + 1]

\* the PipelineResult a frame refers to, with its PipelineMetrics
Deref(h, res) == [res EXCEPT !.metrics = h[@]]

\* one iteration of the for loop of run(), for a stage whose operation
\* ends as the plan says
StageStep(ff, vt, plan, res, i) ==
    IF (IF i = 1 THEN FALSE ELSE Not(res[Slot[i - 1]]))
    THEN StageDone(ff, res, i, MissingInput(i))
    ELSE IF plan[i].exc # None
    THEN StageDone(ff, res, i, plan[i].exc)
    ELSE LET a == Attach(vt, res, i, plan[i].output)
         IN  StageDone(ff, a.result, i, a.exc)

\* what run() returns when nothing else runs: the for loop from stage i
RECURSIVE RunAlone(_, _, _, _, _)
RunAlone(ff, vt, plan, res, i) ==
    LET next == StageStep(ff, vt, plan, res, i)
    IN  IF next.pc = "loop"
        THEN RunAlone(ff, vt, plan, next.result, next.idx)
        ELSE next.result

(***************************************************************************)
(* core/registry.py.  A dict is the sequence of its items [key, value] in  *)
(* insertion order, with no key twice.  A plugin class is its name.        *)
(***************************************************************************)
DictKeys(d) == [k \in 1..Len(d) |-> d[k].key]

DictHas(d, key) == \E k \in 1..Len(d) : d[k].key = key

DictGet(d, key) == d[CHOOSE k \in 1..Len(d) : d[k].key = key].value

\* variant: d.setdefault(key, value)
DictSet_KeepFirst(d, key, value) ==
    IF DictHas(d, key) THEN d
    ELSE Append(d, [key |-> key, value |-> value])

\* d[key] = value: an existing key keeps its place
DictSet(d, key, value) ==
    IF DictHas(d, key)
    THEN [k \in 1..Len(d) |-> IF d[k].key = key THEN [key |-> key, value |-> value] ELSE d[k]]
    ELSE Append(d, [key |-> key, value |-> value])

VALID_STAGES == {"collector", "processor", "analyzer", "model", "action", "monitor"}

\* sorted(_VALID_STAGES)
SortedValidStages == <<"action", "analyzer", "collector", "model", "monitor", "processor">>

\* the initial _REGISTRY
EmptyRegistry == [stage \in VALID_STAGES |-> <<>>]

\* repr() of a list of str, which an f-string applies to a list
RECURSIVE ReprItems(_)
ReprItems(seq) ==
    IF Len(seq) = 1 THEN "'" \o seq[1] \o "'"
    ELSE ReprItems(SubSeq(seq, 1, Len(seq) - 1)) \o ", '" \o seq[Len(seq)] \o "'"

ReprList(seq) == IF seq = <<>> THEN "[]" ELSE "[" \o ReprItems(seq) \o "]"

\* _REGISTRY.get(stage, {})
StageDict(reg, stage) == IF stage \in DOMAIN reg THEN reg[stage] ELSE <<>>

\* variant: the class is stored under the name in every stage
Register_AllStages(reg, stage, name, cls) ==
    IF stage \notin VALID_STAGES
    THEN [ registry |-> reg,
           value    |-> NoneStr,
           exc      |-> Raise("ValueError", "Unknown stage '" \o stage \o "'. Valid: "
                                               \o ReprList(SortedValidStages)) ]
    ELSE [ registry |-> [st \in DOMAIN reg |-> DictSet(reg[st], name, cls)],
           value    |-> cls,
           exc      |-> None ]

\* variant: the class is stored before the stage is checked
Register_StoreFirst(reg, stage, name, cls) ==
    IF stage \notin VALID_STAGES
    THEN [ registry |-> (stage :> DictSet(StageDict(reg, stage), name, cls)) @@ reg,
           value    |-> NoneStr,
           exc      |-> Raise("ValueError", "Unknown stage '" \o stage \o "'. Valid: "
                                               \o ReprList(SortedValidStages)) ]
    ELSE [ registry |-> [reg EXCEPT ![stage] = DictSet(@, name, cls)],
           value    |-> cls,
           exc      |-> None ]

\* register(stage, name)(cls): the decorator applied to a class
Register(reg, stage, name, cls) ==
    IF stage \notin VALID_STAGES
    THEN [ registry |-> reg,
           value    |-> NoneStr,
           exc      |-> Raise("ValueError", "Unknown stage '" \o stage \o "'. Valid: "
                                               \o ReprList(SortedValidStages)) ]
    ELSE [ registry |-> [reg EXCEPT ![stage] = DictSet(@, name, cls)],
           value    |-> cls,
           exc      |-> None ]

\* variant: the lookup creates the stage's dict, _REGISTRY.setdefault(stage, {})
GetPlugin_SetDefault(reg, stage, name) ==
    LET reg1 == IF stage \in DOMAIN reg THEN reg ELSE (stage :> <<>>) @@ reg
    IN  IF DictHas(reg1[stage], name)
        THEN [registry |-> reg1, value |-> DictGet(reg1[stage], name), exc |-> None]
        ELSE [ registry |-> reg1,
               value    |-> NoneStr,
               exc      |-> Raise("PluginNotFoundError",
                                  "Plugin '" \o name \o "' not found in stage '" \o stage
                                      \o "'. Available: " \o ReprList(DictKeys(reg1[stage]))) ]

\* get_plugin(stage, name)
GetPlugin(reg, stage, name) ==
    IF stage \in DOMAIN reg /\ DictHas(reg[stage], name)
    THEN [registry |-> reg, value |-> DictGet(reg[stage], name), exc |-> None]
    ELSE [ registry |-> reg,
           value    |-> NoneStr,
           exc      |-> Raise("PluginNotFoundError",
                              "Plugin '" \o name \o "' not found in stage '" \o stage
                                  \o "'. Available: " \o ReprList(DictKeys(StageDict(reg, stage)))) ]

\* list_plugins(stage); stage is NoneStr for None, and `if stage` is false
\* for None and for the empty string
ListPlugins(reg, stage) ==
    IF stage # NoneStr /\ stage # ""
    THEN [registry |-> reg, value |-> (stage :> DictKeys(StageDict(reg, stage)))]
    ELSE [registry |-> reg, value |-> [st \in DOMAIN reg |-> DictKeys(reg[st])]]

(***************************************************************************)
(* stages/actions/alert.py.  A Scenario carries the fields decide reads:   *)
(* its id, name, probability, risk_level, its assumptions (the variable    *)
(* names) and its sensitivity dict.                                        *)
(***************************************************************************)
\* 0.3
DEFAULT_MIN_PROBABILITY == <<3, 10>>

AlertConfig(min_probability, min_risk_level) ==
    [ min_probability |-> min_probability,
      min_risk_level  |-> min_risk_level,
      decision_type   |-> "alert" ]

RISK_RANK == [low |-> 0, medium |-> 1, high |-> 2, critical |-> 3]

\* variant: the baseline is not left out
filter_scenarios_KeepBaseline(config, scenarios) ==
    LET min_rank == RISK_RANK[config.min_risk_level]
        qualifies(s) ==
            /\ ~FracLess(s.probability, config.min_probability)
            /\ RISK_RANK[s.risk_level] >= min_rank
    IN  SelectSeq(scenarios, qualifies)

\* ConditionalAlertEmitter._filter_scenarios
filter_scenarios(config, scenarios) ==
    LET min_rank == RISK_RANK[config.min_risk_level]
        qualifies(s) ==
            /\ ~FracLess(s.probability, config.min_probability)
            /\ RISK_RANK[s.risk_level] >= min_rank
            /\ s.name # "baseline (status quo)"
    IN  SelectSeq(scenarios, qualifies)

\* DecisionDriver(name=..., weight=...): weight: float = Field(ge=0.0, le=1.0)
NewDecisionDriver(name, weight) ==
    [ value |-> Instance("DecisionDriver", [name |-> name, weight |-> weight]),
      exc   |-> ValidationError(confidence_in_range(weight)) ]

\* scenario.sensitivity.get(variable, 0.5)
SensitivityOf(scenario, variable) ==
    IF DictHas(scenario.sensitivity, variable)
    THEN DictGet(scenario.sensitivity, variable)
    ELSE <<1, 2>>

\* ConditionalAlertEmitter._build_decision: the drivers first; the first
\* driver that cannot be constructed ends the call with its exception
build_decision(config, scenario, baseline) ==
    LET drivers == [k \in 1..Len(scenario.assumptions) |->
                       NewDecisionDriver(scenario.assumptions[k],
                                         SensitivityOf(scenario, scenario.assumptions[k]))]
        failed == {k \in 1..Len(drivers) : drivers[k].exc # None}
    IN  IF failed # {}
        THEN [value |-> None, exc |-> drivers[CHOOSE k \in failed : \A j \in failed : k <= j].exc]
        ELSE [ value |-> [ decision_type    |-> config.decision_type,
                           drivers          |-> [k \in 1..Len(drivers) |-> drivers[k].value],
                           confidence       |-> scenario.probability,
                           risk_level       |-> scenario.risk_level,
                           source_scenarios |-> <<scenario.scenario_id>> ],
               exc   |-> None ]

\* ConditionalAlertEmitter._build_no_action_decision
build_no_action_decision(config, simulation) ==
    [ decision_type    |-> "report",
      drivers          |-> <<NewDecisionDriver("threshold_filter", <<1, 1>>).value>>,
      confidence       |-> <<9, 10>>,
      risk_level       |-> "low",
      source_scenarios |-> [k \in 1..Len(simulation.scenarios) |->
                                simulation.scenarios[k].scenario_id] ]

\* ConditionalAlertEmitter.decide: the DecisionResult it returns, or the
\* exception it raises
Decide(config, simulation) ==
    LET qualifying == filter_scenarios(config, simulation.scenarios)
        built == [k \in 1..Len(qualifying) |->
                     build_decision(config, qualifying[k], simulation.baseline)]
        failed == {k \in 1..Len(built) : built[k].exc # None}
        decisions == [k \in 1..Len(built) |-> built[k].value]
    IN  IF failed # {}
        THEN [value |-> None, exc |-> built[CHOOSE k \in failed : \A j \in failed : k <= j].exc]
        ELSE [ value |-> [ stage     |-> "decision",
                           decisions |-> IF decisions = <<>>
                                         THEN <<build_no_action_decision(config, simulation)>>
                                         ELSE decisions ],
               exc   |-> None ]

(***************************************************************************)
(* The arguments of the registry calls.                                    *)
(***************************************************************************)
StageArgs == {"collector", "model", "invalid_stage"}

Names == {"test_dummy", "overwrite_me"}

Classes == {"First", "Second"}

\* the stage argument of list_plugins: None, the empty string, a stage kind
ListArgs == StageArgs \cup {NoneStr, ""}

NoCall ==
    [ op |-> "none", stage |-> NoneStr, name |-> NoneStr, cls |-> NoneStr,
      before |-> NoneStr, value |-> NoneStr, listing |-> None, exc |-> None ]

(***************************************************************************)
(* The state machine.                                                      *)
(***************************************************************************)
PipelineInit ==
    /\ pc = "init"
    /\ idx = 1
    /\ result = PipelineResult
    /\ calls = <<>>
    /\ in_progress = {}
    /\ raised = <<>>
    /\ propagated = None

MetricsInit ==
    /\ pm = PipelineMetrics
    /\ added_duration = 0
    /\ added_failures = 0

RegistryInit ==
    /\ REGISTRY = EmptyRegistry
    /\ last = NoCall
    /\ latest = [key \in StageArgs \X Names |-> NoneStr]

\* no construction and no assignment yet
NoOp == [op |-> "none", cls |-> NoneStr, field |-> NoneStr, before |-> None, exc |-> None]

ContractInit ==
    /\ obj = None
    /\ made = NoOp

RunsInit ==
    /\ runs = [r \in Runs |-> NoPipeline]
    /\ heap = <<>>

AlertInit ==
    /\ alert = None

Init ==
    /\ fail_fast \in BOOLEAN
    /\ validate_transitions \in BOOLEAN
    /\ PipelineInit
    /\ MetricsInit
    /\ RegistryInit
    /\ ContractInit
    /\ RunsInit
    /\ AlertInit

Goto(next) ==
    /\ result' = next.result
    /\ pc' = next.pc
    /\ idx' = next.idx
    /\ propagated' = next.propagated

\* how `await stage_fn(result)` ended, and the rest of the try statement
EndStage(res, exc) ==
    /\ raised' = IF exc = None THEN raised
                 ELSE Append(raised, [stage |-> stages[idx], exc |-> exc])
    /\ Goto(StageDone(fail_fast, res, idx, exc))

\* run() is called: a fresh PipelineResult, and the loop starts
Run ==
    /\ pc = "init"
    /\ result' = PipelineResult
    /\ idx' = 1
    /\ pc' = "loop"
    /\ UNCHANGED <<fail_fast, validate_transitions, calls, in_progress, raised, propagated>>
    /\ UNCHANGED <<metricsVars, registryVars, contractVars, runsVars, alertVars>>

\* a stage starts and its predecessor's slot is falsy: _run_* raises the
\* PipelineError without calling the operation
StageMissingInput ==
    /\ pc = "loop"
    /\ idx > 1
    /\ Not(result[Slot[idx - 1]])
    /\ EndStage(result, MissingInput(idx))
    /\ UNCHANGED <<fail_fast, validate_transitions, calls, in_progress>>
    /\ UNCHANGED <<metricsVars, registryVars, contractVars, runsVars, alertVars>>

\* a stage starts and calls its operation on the predecessor's output
\* (collect takes none); run() is suspended until the operation ends
StageInvoke ==
    /\ pc = "loop"
    /\ IF idx = 1 THEN TRUE ELSE ~Not(result[Slot[idx - 1]])
    /\ calls' = Append(calls, [ op  |-> Operation[idx],
                                arg |-> IF idx = 1 THEN None ELSE result[Slot[idx - 1]] ])
    /\ in_progress' = in_progress \cup {Operation[idx]}
    /\ pc' = "await"
    /\ UNCHANGED <<fail_fast, validate_transitions, idx, result, raised, propagated>>
    /\ UNCHANGED <<metricsVars, registryVars, contractVars, runsVars, alertVars>>

\* the awaited operation returns an output
OpReturn ==
    /\ pc = "await"
    /\ \E output \in Outputs(idx) :
          LET a == Attach(validate_transitions, result, idx, output)
          IN  EndStage(a.result, a.exc)
    /\ in_progress' = in_progress \ {Operation[idx]}
    /\ UNCHANGED <<fail_fast, validate_transitions, calls>>
    /\ UNCHANGED <<metricsVars, registryVars, contractVars, runsVars, alertVars>>

\* the awaited operation raises
OpRaise ==
    /\ pc = "await"
    /\ \E exc \in OpExceptions :
          EndStage(result, exc)
    /\ in_progress' = in_progress \ {Operation[idx]}
    /\ UNCHANGED <<fail_fast, validate_transitions, calls>>
    /\ UNCHANGED <<metricsVars, registryVars, contractVars, runsVars, alertVars>>

Next ==
    \/ Run
    \/ StageMissingInput
    \/ StageInvoke
    \/ OpReturn
    \/ OpRaise

Spec == Init /\ [][Next]_allVars

\* run() goes on whenever it can, and an awaited stage operation ends
FairSpec ==
    /\ Init
    /\ [][Next]_allVars
    /\ WF_allVars(StageMissingInput)
    /\ WF_allVars(StageInvoke)
    /\ WF_allVars(OpReturn \/ OpRaise)

(***************************************************************************)
(* SpecMetrics: StageMetrics are added to a PipelineMetrics.  The          *)
(* aggregator does not look at the stage names, so a name may come twice.  *)
(***************************************************************************)
AddedMetrics ==
    { TimedStageMetrics(stage, d, ok, IF ok THEN NoneStr ELSE "boom") :
          stage \in {"observation", "compression"}, d \in 0..MaxDuration, ok \in BOOLEAN }

AddStageMetrics ==
    /\ Len(pm.stages) < MaxAdds
    /\ \E m \in AddedMetrics :
          /\ pm' = Add(pm, m)
          /\ added_duration' = added_duration + m.duration_seconds
          /\ added_failures' = added_failures + (IF m.success THEN 0 ELSE 1)
    /\ UNCHANGED <<vars, registryVars, contractVars, runsVars, alertVars>>

NextMetrics == AddStageMetrics

SpecMetrics == Init /\ [][NextMetrics]_allVars

(***************************************************************************)
(* SpecRegistry: calls on the registry, in any order.                      *)
(***************************************************************************)
CallRegister ==
    \E stage \in StageArgs, name \in Names, cls \in Classes :
        LET r == Register(REGISTRY, stage, name, cls)
        IN  /\ REGISTRY' = r.registry
            /\ last' = [ op |-> "register", stage |-> stage, name |-> name, cls |-> cls,
                         before |-> GetPlugin(REGISTRY, stage, name).value,
                         value |-> r.value, listing |-> None, exc |-> r.exc ]
            /\ latest' = IF r.exc = None
                         THEN [latest EXCEPT ![<<stage, name>>] = cls]
                         ELSE latest
            /\ UNCHANGED <<vars, metricsVars, contractVars, runsVars, alertVars>>

CallGetPlugin ==
    \E stage \in StageArgs, name \in Names :
        LET r == GetPlugin(REGISTRY, stage, name)
        IN  /\ REGISTRY' = r.registry
            /\ last' = [ op |-> "get_plugin", stage |-> stage, name |-> name, cls |-> NoneStr,
                         before |-> r.value,
                         value |-> r.value, listing |-> None, exc |-> r.exc ]
            /\ UNCHANGED <<latest, vars, metricsVars, contractVars, runsVars, alertVars>>

CallListPlugins ==
    \E stage \in ListArgs :
        LET r == ListPlugins(REGISTRY, stage)
        IN  /\ REGISTRY' = r.registry
            /\ last' = [ op |-> "list_plugins", stage |-> stage, name |-> NoneStr,
                         cls |-> NoneStr, before |-> NoneStr,
                         value |-> NoneStr, listing |-> r.value, exc |-> None ]
            /\ UNCHANGED <<latest, vars, metricsVars, contractVars, runsVars, alertVars>>

NextRegistry ==
    \/ CallRegister
    \/ CallGetPlugin
    \/ CallListPlugins

SpecRegistry == Init /\ [][NextRegistry]_allVars

(***************************************************************************)
(* SpecContracts: objects are constructed, and the fields of the last one  *)
(* are assigned to.                                                        *)
(***************************************************************************)
Fractions == {<<1, 2>>, <<3, 2>>}

\* what a construction leaves: the new object, or nothing when it raised
Constructed(r) == IF r.exc = None THEN r.value ELSE obj

Construction(r) ==
    [op |-> "construct", cls |-> r.value.cls, field |-> NoneStr, before |-> r.value, exc |-> r.exc]

ConstructSimulationResult ==
    /\ \E n \in 0..MaxScenarios, baseline \in {None, [scenario |-> 1]} :
          LET r == NewSimulationResult(Items(n), baseline)
          IN  /\ obj' = Constructed(r)
              /\ made' = Construction(r)
    /\ UNCHANGED <<vars, metricsVars, registryVars, runsVars, alertVars>>

ConstructHypothesis ==
    /\ \E confidence \in Fractions, v \in 0..MaxCriteria, f \in 0..MaxCriteria :
          LET r == NewHypothesis(confidence, Items(v), Items(f))
          IN  /\ obj' = Constructed(r)
              /\ made' = Construction(r)
    /\ UNCHANGED <<vars, metricsVars, registryVars, runsVars, alertVars>>

\* the other per-stage results, and the frozen report inside CollectionResult
OtherObjects ==
    { Instance("CollectionResult", CollectionResult(1, 1)),
      Instance("CompressionResult", CompressionResult(1)),
      Instance("HypothesisResult", HypothesisResult(1)),
      Instance("DecisionResult", DecisionResult(1)),
      Instance("FeedbackResult", FeedbackResult(1)),
      Instance("DataQualityReport", DataQualityReport(1, 1)) }

ConstructOther ==
    /\ \E o \in OtherObjects :
          LET r == [value |-> o, exc |-> None]
          IN  /\ obj' = Constructed(r)
              /\ made' = Construction(r)
    /\ UNCHANGED <<vars, metricsVars, registryVars, runsVars, alertVars>>

\* the values assigned to a field
Assigned(field) ==
    CASE field = "stage" -> {"other"}
      [] field = "baseline" -> {None}
      [] field = "quality_report" -> {DataQualityReport(0, 0)}
      [] field = "confidence" -> {<<3, 2>>}
      [] field \in {"total_records", "valid_records"} -> {0}
      [] field = "reliability_score" -> {<<0, 1>>}
      [] OTHER -> {<<>>}

SetAttribute ==
    /\ obj # None
    /\ \E field \in DOMAIN obj.fields :
          \E value \in Assigned(field) :
              LET r == SetAttr(obj, field, value)
              IN  /\ obj' = r.obj
                  /\ made' = [ op |-> "setattr", cls |-> obj.cls, field |-> field,
                               before |-> obj, exc |-> r.exc ]
    /\ UNCHANGED <<vars, metricsVars, registryVars, runsVars, alertVars>>

NextContracts ==
    \/ ConstructSimulationResult
    \/ ConstructHypothesis
    \/ ConstructOther
    \/ SetAttribute

SpecContracts == Init /\ [][NextContracts]_allVars

(***************************************************************************)
(* SpecConcurrent: two Pipeline objects are made and their run() calls     *)
(* advance in any order, each from one suspension point to the next.       *)
(* `overlap` records that the run took a step while the other run was      *)
(* under way.                                                              *)
(***************************************************************************)
Other(r) == CHOOSE q \in Runs : q # r

UnderWay(q) == runs[q].pc \in {"loop", "await"}

\* the frame of run r after a step of its loop that led to `next`
Frame(r, next) ==
    [runs[r] EXCEPT !.pc = next.pc,
                    !.idx = next.idx,
                    !.result = [next.result EXCEPT !.metrics = runs[r].result.metrics],
                    !.overlap = @ \/ UnderWay(Other(r))]

\* the step writes the PipelineMetrics its result refers to
Written(r, next) == [heap EXCEPT ![runs[r].result.metrics] = next.result.metrics]

NewPipeline ==
    /\ \E r \in Runs :
          /\ runs[r].pc = "none"
          /\ \E p \in Pipelines :
                runs' = [runs EXCEPT ![r] =
                            [ pc |-> "init", idx |-> 1, result |-> None, overlap |-> FALSE,
                              fail_fast |-> p.fail_fast,
                              validate_transitions |-> p.validate_transitions,
                              plan |-> p.plan ]]
    /\ UNCHANGED <<heap, vars, metricsVars, registryVars, contractVars, alertVars>>

\* run() is called: `result = PipelineResult()`
RunCalled ==
    /\ \E r \in Runs :
          /\ runs[r].pc = "init"
          /\ LET new == NewMetrics(heap)
             IN  /\ heap' = new.heap
                 /\ runs' = [runs EXCEPT ![r].pc = "loop",
                                         ![r].result = [PipelineResult EXCEPT !.metrics = new.address],
                                         ![r].overlap = UnderWay(Other(r))]
    /\ UNCHANGED <<vars, metricsVars, registryVars, contractVars, alertVars>>

\* a stage starts without its predecessor's output
RunMissingInput ==
    /\ \E r \in Runs :
          /\ runs[r].pc = "loop"
          /\ runs[r].idx > 1
          /\ Not(runs[r].result[Slot[runs[r].idx - 1]])
          /\ LET next == StageStep(runs[r].fail_fast, runs[r].validate_transitions,
                                   runs[r].plan, Deref(heap, runs[r].result), runs[r].idx)
             IN  /\ runs' = [runs EXCEPT ![r] = Frame(r, next)]
                 /\ heap' = Written(r, next)
    /\ UNCHANGED <<vars, metricsVars, registryVars, contractVars, alertVars>>

\* a stage starts and awaits its operation: run() is suspended
RunInvoke ==
    /\ \E r \in Runs :
          /\ runs[r].pc = "loop"
          /\ IF runs[r].idx = 1 THEN TRUE ELSE ~Not(runs[r].result[Slot[runs[r].idx - 1]])
          /\ runs' = [runs EXCEPT ![r].pc = "await",
                                  ![r].overlap = @ \/ UnderWay(Other(r))]
    /\ UNCHANGED <<heap, vars, metricsVars, registryVars, contractVars, alertVars>>

\* the awaited operation ends as the plan says, and run() goes on to its
\* next suspension point or to its return
RunResumed ==
    /\ \E r \in Runs :
          /\ runs[r].pc = "await"
          /\ LET next == StageStep(runs[r].fail_fast, runs[r].validate_transitions,
                                   runs[r].plan, Deref(heap, runs[r].result), runs[r].idx)
             IN  /\ runs' = [runs EXCEPT ![r] = Frame(r, next)]
                 /\ heap' = Written(r, next)
    /\ UNCHANGED <<vars, metricsVars, registryVars, contractVars, alertVars>>

NextConcurrent ==
    \/ NewPipeline
    \/ RunCalled
    \/ RunMissingInput
    \/ RunInvoke
    \/ RunResumed

SpecConcurrent == Init /\ [][NextConcurrent]_allVars

(***************************************************************************)
(* SpecAlert: decide is called on simulation results of two scenarios,     *)
(* each with one assumption, on the variable "x".                          *)
(***************************************************************************)
Sensitivities == { <<>>, <<[key |-> "x", value |-> <<3, 2>>]>> }

ScenarioValues ==
    [ name        : {"baseline (status quo)", "baseline (p50)", "mild"},
      probability : {<<2, 10>>, <<5, 10>>},
      risk_level  : {"low", "high"},
      assumptions : {<<"x">>},
      sensitivity : Sensitivities ]

\* Scenario(...): scenario_id is a fresh id
Scenario(id, v) ==
    [ scenario_id |-> id, name |-> v.name, probability |-> v.probability,
      risk_level |-> v.risk_level, assumptions |-> v.assumptions,
      sensitivity |-> v.sensitivity ]

AlertConfigs ==
    { AlertConfig(p, r) : p \in {DEFAULT_MIN_PROBABILITY, <<1, 1>>}, r \in {"low", "medium"} }

\* one emitter, one call
CallDecide ==
    /\ alert = None
    /\ \E config \in AlertConfigs, v1 \in ScenarioValues, v2 \in ScenarioValues,
          with_baseline \in BOOLEAN :
          LET scenarios == <<Scenario(1, v1), Scenario(2, v2)>>
              simulation == [ stage     |-> "simulation",
                              scenarios |-> scenarios,
                              baseline  |-> IF with_baseline THEN scenarios[1] ELSE None ]
              r == Decide(config, simulation)
          IN  alert' = [ op |-> "decide", config |-> config, simulation |-> simulation,
                         value |-> r.value, exc |-> r.exc ]
    /\ UNCHANGED <<vars, metricsVars, registryVars, contractVars, runsVars>>

NextAlert == CallDecide

SpecAlert == Init /\ [][NextAlert]_allVars

(***************************************************************************)
(* Properties of run().                                                    *)
(***************************************************************************)
Entries == result.metrics.stages

Returned == pc = "returned"

StageIndex(name) == CHOOSE i \in 1..NStages : stages[i] = name

OpIndex(op) == CHOOSE i \in 1..NStages : Operation[i] = op

HasFailedEntry == \E k \in DOMAIN Entries : ~Entries[k].success

\* C1: with fail_fast=True, once a stage has failed (its operation raised,
\* or its output failed the transition check) run() has returned: nothing
\* is in progress, no second failure occurs, and every operation ever
\* invoked belongs to the failing stage or to an earlier one.
C1_FailFastStops ==
    (fail_fast /\ raised # <<>>) =>
        LET k == StageIndex(raised[1].stage)
        IN  /\ Returned
            /\ in_progress = {}
            /\ Len(raised) = 1
            /\ \A j \in DOMAIN calls : OpIndex(calls[j].op) <= k

C1_Witness ==
    /\ fail_fast
    /\ Returned
    /\ Len(raised) = 1
    /\ raised[1].stage = "hypothesis"
    /\ Len(calls) = 3

\* C2: with fail_fast=True, if stage k fails, run() returns success=False,
\* error "Pipeline failed at '<stage>': <message>" and exactly k metrics
\* entries, the first k-1 successful and the last failed; a raising
\* collector yields the single entry (observation, failed).
C2_FailFastResult ==
    (fail_fast /\ Returned /\ raised # <<>>) =>
        LET k   == StageIndex(raised[1].stage)
            msg == raised[1].exc.msg
        IN  /\ result.success = FALSE
            /\ result.error = "Pipeline failed at '" \o raised[1].stage \o "': " \o msg
            /\ Len(Entries) = k
            /\ \A j \in 1..(k - 1) : Entries[j] = StageMetrics(stages[j], TRUE, NoneStr)
            /\ Entries[k] = StageMetrics(raised[1].stage, FALSE, msg)
            /\ raised[1].stage = "observation" =>
                   /\ Len(Entries) = 1
                   /\ Entries[1].stage = "observation"
                   /\ ~Entries[1].success

C2_Witness ==
    /\ fail_fast
    /\ Returned
    /\ Len(Entries) = 6
    /\ ~Entries[6].success
    /\ result.error = "Pipeline failed at 'feedback': boom"

\* C3, as stated: for both settings of fail_fast, a run in which a stage is
\* recorded as failed returns success=False and a non-None error naming a
\* failing stage and its message.
C3_FailedRunReportsFailure ==
    (Returned /\ HasFailedEntry) =>
        /\ result.success = FALSE
        /\ result.error # NoneStr
        /\ \E k \in DOMAIN Entries :
              /\ ~Entries[k].success
              /\ result.error =
                    "Pipeline failed at '" \o Entries[k].stage \o "': " \o Entries[k].error

\* C3, amended: a run in which a stage is recorded as failed returns, with
\* fail_fast=True, success=False and the error naming the failing stage and
\* its message; with fail_fast=False it returns success=True and error None.
C3_FailedRunByPolicy ==
    (Returned /\ HasFailedEntry) =>
        IF fail_fast
        THEN /\ result.success = FALSE
             /\ result.error # NoneStr
             /\ \E k \in DOMAIN Entries :
                   /\ ~Entries[k].success
                   /\ result.error =
                         "Pipeline failed at '" \o Entries[k].stage \o "': " \o Entries[k].error
        ELSE /\ result.success = TRUE
             /\ result.error = NoneStr

C3_Witness ==
    /\ ~fail_fast
    /\ Returned
    /\ HasFailedEntry
    /\ result.success = TRUE
    /\ result.error = NoneStr

\* C4: a run that ends without the fail-fast early return (no stage failed,
\* or fail_fast=False) has success=True; so has a run with fail_fast=False
\* whose collector raised.
C4_SuccessAtLoopEnd ==
    (Returned /\ ~(fail_fast /\ raised # <<>>)) => result.success = TRUE

C4_Witness ==
    /\ ~fail_fast
    /\ Returned
    /\ raised # <<>>
    /\ raised[1] = [stage |-> "observation", exc |-> Raise("RuntimeError", "boom")]
    /\ result.success = TRUE

\* C5: with fail_fast=False, once a stage is recorded as failed every later
\* stage of the run is recorded as failed.
C5_FailureCascades ==
    ~fail_fast =>
        \A j, k \in DOMAIN Entries :
            (j < k /\ ~Entries[j].success) => ~Entries[k].success

\* C6: with fail_fast=False, run() returns with exactly six metrics entries,
\* one per stage in the stage order, whichever stages failed.
C6_SixEntries ==
    (~fail_fast /\ Returned) =>
        /\ Len(Entries) = 6
        /\ [i \in 1..6 |-> Entries[i].stage] =
              << "observation", "compression", "hypothesis",
                 "simulation", "decision", "feedback" >>

C6_Witness ==
    /\ ~fail_fast
    /\ Returned
    /\ raised # <<>>
    /\ raised[1].stage = "observation"
    /\ raised[1].exc.cls = "RuntimeError"
    /\ Len(Entries) = 6

C8_SequentialOnce ==
    LET order == <<"collect", "process", "analyze", "simulate", "decide", "evaluate">>
        pos(op) == CHOOSE i \in 1..6 : order[i] = op
    IN  /\ \A j \in DOMAIN calls : calls[j].op \in {order[i] : i \in 1..6}
        /\ \A j \in 1..(Len(calls) - 1) : pos(calls[j].op) < pos(calls[j + 1].op)
        /\ Cardinality(in_progress) <= 1
        /\ in_progress # {} =>
              /\ calls # <<>>
              /\ in_progress = {calls[Len(calls)].op}
              /\ Len(Entries) = pos(calls[Len(calls)].op) - 1

C8_Witness ==
    /\ Len(calls) = 6
    /\ in_progress = {"evaluate"}

\* C9: a step from the start of a stage other than observation whose
\* predecessor's slot is None invokes no operation and appends the failed
\* entry with the error 'No <PredecessorResult> available for <stage>'.
C9_MissingPredecessor ==
    [][ LET text == << "",
                       "No CollectionResult available for compression",
                       "No CompressionResult available for hypothesis",
                       "No HypothesisResult available for simulation",
                       "No SimulationResult available for decision",
                       "No DecisionResult available for feedback" >>
        IN  (pc = "loop" /\ idx > 1 /\ result[Slot[idx - 1]] = None) =>
                /\ calls' = calls
                /\ in_progress' = in_progress
                /\ result'.metrics.stages =
                      Append(Entries, StageMetrics(stages[idx], FALSE, text[idx]))
      ]_vars

C9_Witness ==
    /\ result.collection = None
    /\ Len(Entries) >= 2
    /\ Entries[2] =
          StageMetrics("compression", FALSE, "No CollectionResult available for compression")
    /\ \A j \in DOMAIN calls : calls[j].op # "process"

\* C10: with validate_transitions=True, an observation output with
\* reliability_score < 0.1 makes the observation stage fail with
\* 'Reliability score too low to proceed' (and with fail_fast=True the run
\* fails there with that text); a score >= 0.1 passes the gate.
C10_ReliabilityGate ==
    (validate_transitions /\ result.collection # None) =>
        LET score == result.collection.quality_report.reliability_score
        IN  IF 10 * score[1] < score[2]
            THEN /\ Entries[1] = StageMetrics("observation", FALSE,
                                              "Reliability score too low to proceed")
                 /\ fail_fast =>
                       /\ Returned
                       /\ result.success = FALSE
                       /\ result.error =
                             "Pipeline failed at 'observation': Reliability score too low to proceed"
            ELSE Entries[1] = StageMetrics("observation", TRUE, NoneStr)

C10_Witness ==
    /\ validate_transitions
    /\ fail_fast
    /\ Returned
    /\ result.collection # None
    /\ result.collection.quality_report.total_records = 10
    /\ result.collection.quality_report.valid_records = 0
    /\ result.error = "Pipeline failed at 'observation': Reliability score too low to proceed"

\* the metrics entry of the stage called `name`, when there is exactly one
EntryOf(name) ==
    Entries[CHOOSE k \in DOMAIN Entries : Entries[k].stage = name]

HasEntry(name) == \E k \in DOMAIN Entries : Entries[k].stage = name

\* C11: with validate_transitions=True, a compression / hypothesis /
\* decision output fails the transition check iff its states / hypotheses /
\* decisions are empty, with the message of that stage; a simulation or a
\* feedback output never fails it.
C11_TransitionChecks ==
    validate_transitions =>
        /\ result.compression # None =>
              EntryOf("compression") =
                 IF Len(result.compression.states) = 0
                 THEN StageMetrics("compression", FALSE, "No MarketState produced")
                 ELSE StageMetrics("compression", TRUE, NoneStr)
        /\ result.hypothesis # None =>
              EntryOf("hypothesis") =
                 IF Len(result.hypothesis.hypotheses) = 0
                 THEN StageMetrics("hypothesis", FALSE, "No hypotheses generated")
                 ELSE StageMetrics("hypothesis", TRUE, NoneStr)
        /\ result.decision # None =>
              EntryOf("decision") =
                 IF Len(result.decision.decisions) = 0
                 THEN StageMetrics("decision", FALSE, "No decisions generated")
                 ELSE StageMetrics("decision", TRUE, NoneStr)
        /\ result.simulation # None =>
              EntryOf("simulation") = StageMetrics("simulation", TRUE, NoneStr)
        /\ result.feedback # None =>
              EntryOf("feedback") = StageMetrics("feedback", TRUE, NoneStr)
        /\ \A j \in DOMAIN raised :
              raised[j].exc.cls = "StageTransitionError" =>
                  raised[j].stage \notin {"simulation", "feedback"}

C11_Witness ==
    /\ validate_transitions
    /\ fail_fast
    /\ Returned
    /\ result.simulation # None
    /\ result.decision # None
    /\ result.decision.decisions = <<>>
    /\ result.error = "Pipeline failed at 'decision': No decisions generated"

\* C12: with validate_transitions=False no transition error is ever
\* raised: every output an operation returns is recorded as a success,
\* whatever it holds, and is the argument of the next stage's operation,
\* whose entry is a success iff that operation returned.
C12_NoValidation ==
    ~validate_transitions =>
        /\ \A j \in DOMAIN raised : raised[j].exc.cls # "StageTransitionError"
        /\ \A i \in 1..6 :
              result[Slot[i]] # None =>
                  /\ Entries[i] = StageMetrics(stages[i], TRUE, NoneStr)
                  /\ (i < 6 /\ Len(calls) > i) =>
                        calls[i + 1] = [op |-> Operation[i + 1], arg |-> result[Slot[i]]]
                  /\ (i < 6 /\ Len(Entries) > i) =>
                        /\ Len(calls) > i
                        /\ Entries[i + 1].success <=> result[Slot[i + 1]] # None

C12_Witness ==
    /\ ~validate_transitions
    /\ Returned
    /\ result.collection # None
    /\ result.collection.quality_report.reliability_score = <<0, 10>>
    /\ result.compression # None
    /\ result.compression.states = <<>>
    /\ result.hypothesis # None
    /\ result.hypothesis.hypotheses = <<>>
    /\ result.decision # None
    /\ result.decision.decisions = <<>>
    /\ result.feedback # None
    /\ \A k \in DOMAIN Entries : Entries[k].success

\* C13: with validate_transitions=True, for either setting of fail_fast, no
\* operation is invoked on a predecessor output that failed its
\* transition check.
C13_GateBeforeNextStage ==
    validate_transitions =>
        \A j \in DOMAIN calls :
            calls[j].arg # None =>
                LET arg == calls[j].arg
                IN  /\ arg.stage = "observation" =>
                          ~(10 * arg.quality_report.reliability_score[1]
                                < arg.quality_report.reliability_score[2])
                    /\ arg.stage = "compression" => arg.states # <<>>
                    /\ arg.stage = "hypothesis" => arg.hypotheses # <<>>
                    /\ arg.stage = "decision" => arg.decisions # <<>>

\* C14: a step in which an exception is raised while an operation is
\* awaited -- by the operation, or by the transition check on the output
\* it returned -- appends the one failed entry carrying the message, and
\* then follows the fail_fast policy: return with the error, or go on.
C14_CheckFailureLikeException ==
    [][ (pc = "await" /\ Len(raised') = Len(raised) + 1) =>
            LET e == raised'[Len(raised')]
            IN  /\ e.stage = stages[idx]
                /\ result'.metrics.stages =
                      Append(Entries, StageMetrics(stages[idx], FALSE, e.exc.msg))
                /\ IF fail_fast
                   THEN /\ pc' = "returned"
                        /\ result'.success = FALSE
                        /\ result'.error =
                              "Pipeline failed at '" \o stages[idx] \o "': " \o e.exc.msg
                   ELSE /\ result'.error = NoneStr
                        /\ IF idx < 6
                           THEN pc' = "loop" /\ idx' = idx + 1 /\ result'.success = FALSE
                           ELSE pc' = "returned" /\ result'.success = TRUE
      ]_vars

C14_Witness ==
    /\ ~fail_fast
    /\ pc = "loop"
    /\ idx = 4
    /\ Len(Entries) = 3
    /\ Entries[3] = StageMetrics("hypothesis", FALSE, "No hypotheses generated")
    /\ raised[Len(raised)].exc.cls = "StageTransitionError"

\* C15: at every point of a run and in the returned result, an output slot
\* is non-None only if its stage is recorded as successful.
C15_OnlySuccessfulAttached ==
    \A i \in 1..6 :
        result[Slot[i]] # None =>
            \E k \in DOMAIN Entries :
                Entries[k].stage = stages[i] /\ Entries[k].success

\* C16: a run in which all six operations returned and nothing was raised
\* returns success=True, error=None, the six slots filled, and six
\* successful entries named after the stages in order.
C16_FullSuccess ==
    (Returned /\ raised = <<>>) =>
        /\ result.success = TRUE
        /\ result.error = NoneStr
        /\ \A f \in { "collection", "compression", "hypothesis",
                      "simulation", "decision", "feedback" } : result[f] # None
        /\ Entries = << StageMetrics("observation", TRUE, NoneStr),
                        StageMetrics("compression", TRUE, NoneStr),
                        StageMetrics("hypothesis", TRUE, NoneStr),
                        StageMetrics("simulation", TRUE, NoneStr),
                        StageMetrics("decision", TRUE, NoneStr),
                        StageMetrics("feedback", TRUE, NoneStr) >>
        /\ [j \in 1..Len(calls) |-> calls[j].op] =
              <<"collect", "process", "analyze", "simulate", "decide", "evaluate">>

C16_Witness ==
    /\ validate_transitions
    /\ Returned
    /\ raised = <<>>
    /\ result.success = TRUE
    /\ Len(Entries) = 6

(***************************************************************************)
(* C17: for every sequence of StageMetrics added to a PipelineMetrics,     *)
(* total_duration is the sum of the entries' duration_seconds and          *)
(* all_success is true exactly when every entry has success = True; an     *)
(* empty PipelineMetrics has total_duration 0 and all_success True.        *)
(***************************************************************************)
C17_Aggregates ==
    /\ total_duration(pm) = added_duration
    /\ all_success(pm) <=> (added_failures = 0)
    /\ pm.stages = <<>> => (total_duration(pm) = 0 /\ all_success(pm))

C17_Witness ==
    /\ Len(pm.stages) = 3
    /\ pm.stages[1].duration_seconds = 2
    /\ pm.stages[2].duration_seconds = 1
    /\ ~pm.stages[3].success
    /\ total_duration(pm) = 3
    /\ ~all_success(pm)

(***************************************************************************)
(* C18: get_plugin(stage, name) returns the class most recently registered *)
(* under (stage, name); registering again under the same pair with another *)
(* class does not raise, and the last registration wins.                   *)
(***************************************************************************)
C18_LastWriteWins ==
    /\ \A stage \in VALID_STAGES \cap StageArgs, name \in Names :
          latest[<<stage, name>>] # NoneStr =>
              /\ GetPlugin(REGISTRY, stage, name).exc = None
              /\ GetPlugin(REGISTRY, stage, name).value = latest[<<stage, name>>]
    /\ (last.op = "register" /\ last.stage \in VALID_STAGES) =>
          /\ last.exc = None
          /\ GetPlugin(REGISTRY, last.stage, last.name).value = last.cls
    /\ (last.op = "get_plugin" /\ latest[<<last.stage, last.name>>] # NoneStr) =>
          /\ last.exc = None
          /\ last.value = latest[<<last.stage, last.name>>]

C18_Witness ==
    /\ last.op = "register"
    /\ last.before = "First"
    /\ last.cls = "Second"
    /\ last.exc = None
    /\ GetPlugin(REGISTRY, last.stage, last.name).value = "Second"

(***************************************************************************)
(* C19: registering under a stage kind that is not one of the six valid    *)
(* ones fails with an 'Unknown stage' error and leaves the registry as it  *)
(* was: no entry is added and list_plugins() shows no new stage kind.      *)
(***************************************************************************)
C19_InvalidStageRejected ==
    [][(last'.op = "register" /\ last'.stage \notin VALID_STAGES) =>
          /\ last'.exc = Raise("ValueError",
                 "Unknown stage 'invalid_stage'. Valid: ['action', 'analyzer', 'collector', 'model', 'monitor', 'processor']")
          /\ REGISTRY' = REGISTRY
          /\ ListPlugins(REGISTRY', NoneStr).value = ListPlugins(REGISTRY, NoneStr).value
          /\ DOMAIN ListPlugins(REGISTRY', NoneStr).value = VALID_STAGES
          /\ GetPlugin(REGISTRY', last'.stage, last'.name).exc # None
    ]_allVars

C19_Witness ==
    /\ last.op = "register"
    /\ last.stage = "invalid_stage"
    /\ last.exc # None
    /\ last.exc.cls = "ValueError"
    /\ \E stage \in VALID_STAGES : REGISTRY[stage] # <<>>

(***************************************************************************)
(* C20: for every (stage kind, name) with no entry, an invalid stage kind  *)
(* included, get_plugin fails with a PluginNotFoundError whose message     *)
(* lists exactly the names now registered for that stage kind, and leaves  *)
(* the registry unchanged.                                                 *)
(***************************************************************************)
RegisteredNames(stage) == {name \in Names : latest[<<stage, name>>] # NoneStr}

\* the texts that list exactly the names of a set
Listings(names) ==
    IF names = {} THEN {"[]"}
    ELSE IF names = {"test_dummy"} THEN {"['test_dummy']"}
    ELSE IF names = {"overwrite_me"} THEN {"['overwrite_me']"}
    ELSE {"['test_dummy', 'overwrite_me']", "['overwrite_me', 'test_dummy']"}

C20_MissingPluginError ==
    [][(last'.op = "get_plugin" /\ latest[<<last'.stage, last'.name>>] = NoneStr) =>
          /\ last'.exc # None
          /\ last'.exc.cls = "PluginNotFoundError"
          /\ \E text \in Listings(RegisteredNames(last'.stage)) :
                last'.exc.msg = "Plugin '" \o last'.name \o "' not found in stage '"
                                    \o last'.stage \o "'. Available: " \o text
          /\ REGISTRY' = REGISTRY
    ]_allVars

C20_Witness ==
    /\ last.op = "get_plugin"
    /\ last.exc # None
    /\ last.exc.msg = "Plugin 'test_dummy' not found in stage 'collector'. Available: ['overwrite_me']"

C20_WitnessInvalidStage ==
    /\ last.op = "get_plugin"
    /\ last.stage = "invalid_stage"
    /\ last.exc # None
    /\ last.exc.msg = "Plugin 'test_dummy' not found in stage 'invalid_stage'. Available: []"

(***************************************************************************)
(* C21: list_plugins() without a stage returns a mapping whose keys are    *)
(* exactly the six valid stage kinds, each mapped to exactly the names     *)
(* registered for it; list_plugins(stage) returns a mapping with exactly   *)
(* the one key stage, mapped to exactly the names registered for it.       *)
(***************************************************************************)
\* the names registered for a stage, of any str
NamesOf(stage) == IF stage \in StageArgs THEN RegisteredNames(stage) ELSE {}

\* a list holds exactly the names of a set, each once
ListsExactly(seq, names) ==
    /\ {seq[k] : k \in 1..Len(seq)} = names
    /\ Len(seq) = Cardinality(names)

C21_ListPlugins ==
    last.op = "list_plugins" =>
        IF last.stage = NoneStr
        THEN /\ DOMAIN last.listing = VALID_STAGES
             /\ \A stage \in VALID_STAGES : ListsExactly(last.listing[stage], NamesOf(stage))
        ELSE /\ DOMAIN last.listing = {last.stage}
             /\ ListsExactly(last.listing[last.stage], NamesOf(last.stage))

\* the same for every stage argument but the empty string
C21_ListPluginsNonEmptyStage ==
    (last.op = "list_plugins" /\ last.stage # "") =>
        IF last.stage = NoneStr
        THEN /\ DOMAIN last.listing = VALID_STAGES
             /\ \A stage \in VALID_STAGES : ListsExactly(last.listing[stage], NamesOf(stage))
        ELSE /\ DOMAIN last.listing = {last.stage}
             /\ ListsExactly(last.listing[last.stage], NamesOf(last.stage))

C21_NonEmptyStageWitness ==
    /\ last.op = "list_plugins"
    /\ last.stage = "model"
    /\ last.listing = ("model" :> <<"overwrite_me", "test_dummy">>)


(***************************************************************************)
(* C22: constructing a SimulationResult with fewer than 2 scenarios (0 or  *)
(* 1) always fails with a validation error, with or without a baseline;    *)
(* constructing it with 2 or more scenarios succeeds.                      *)
(***************************************************************************)
C22_AtLeastTwoScenarios ==
    (made.op = "construct" /\ made.cls = "SimulationResult") =>
        IF Len(made.before.fields.scenarios) < 2
        THEN /\ made.exc # None
             /\ made.exc.cls = "ValidationError"
        ELSE /\ made.exc = None
             /\ obj = made.before

C22_Witness ==
    /\ made.op = "construct"
    /\ made.cls = "SimulationResult"
    /\ Len(made.before.fields.scenarios) = 1
    /\ made.before.fields.baseline # None
    /\ made.exc # None

C22_WitnessTwo ==
    /\ made.op = "construct"
    /\ made.cls = "SimulationResult"
    /\ Len(made.before.fields.scenarios) = 2
    /\ made.exc = None
    /\ obj = made.before

(***************************************************************************)
(* C23: constructing a Hypothesis succeeds only if both                    *)
(* validation_criteria and falsification_criteria are non-empty: an empty  *)
(* list in either (or both) always makes the construction fail.            *)
(***************************************************************************)
C23_CriteriaRequired ==
    (made.op = "construct" /\ made.cls = "Hypothesis") =>
        /\ made.exc = None =>
              /\ made.before.fields.validation_criteria # <<>>
              /\ made.before.fields.falsification_criteria # <<>>
        /\ (\/ made.before.fields.validation_criteria = <<>>
            \/ made.before.fields.falsification_criteria = <<>>) =>
              /\ made.exc # None
              /\ made.exc.cls = "ValidationError"
              /\ obj # made.before

C23_Witness ==
    /\ made.op = "construct"
    /\ made.cls = "Hypothesis"
    /\ made.before.fields.validation_criteria # <<>>
    /\ made.before.fields.falsification_criteria = <<>>
    /\ made.before.fields.confidence = <<1, 2>>
    /\ made.exc # None

(***************************************************************************)
(* C24: all stage outputs are immutable: assigning to a field of any stage *)
(* output object, the six per-stage result objects included, is rejected   *)
(* and leaves the object unchanged, so that a SimulationResult has at      *)
(* least 2 scenarios for its whole lifetime.                               *)
(***************************************************************************)
C24_StageOutputsImmutable ==
    /\ made.op = "setattr" =>
          /\ made.exc # None
          /\ obj = made.before
    /\ (obj # None /\ obj.cls = "SimulationResult") =>
          Len(obj.fields.scenarios) >= MIN_SCENARIOS

\* the part that holds: the classes declared frozen reject the assignment
C24_FrozenClassesImmutable ==
    (made.op = "setattr" /\ made.cls \in Frozen) =>
        /\ made.exc # None
        /\ obj = made.before

C24_FrozenWitness ==
    /\ made.op = "setattr"
    /\ made.cls = "Hypothesis"
    /\ made.exc # None


(***************************************************************************)
(* C25: pipeline runs do not interfere: when two run() calls on different  *)
(* Pipeline objects are interleaved at the stage suspension points, each   *)
(* returns the PipelineResult (outputs, metrics entries, success, error)   *)
(* it would return when run alone.                                         *)
(***************************************************************************)
C25_RunsDoNotInterfere ==
    \A r \in Runs :
        runs[r].pc = "returned" =>
            Deref(heap, runs[r].result) =
                RunAlone(runs[r].fail_fast, runs[r].validate_transitions, runs[r].plan,
                         PipelineResult, 1)

C25_Witness ==
    /\ \A r \in Runs : runs[r].pc = "returned" /\ runs[r].overlap
    /\ runs[1].fail_fast /\ runs[1].plan[2].exc # None
    /\ Len(Deref(heap, runs[1].result).metrics.stages) = 2
    /\ Deref(heap, runs[1].result).error = "Pipeline failed at 'compression': boom"
    /\ runs[2].plan = GoodPlan
    /\ Len(Deref(heap, runs[2].result).metrics.stages) = 6
    /\ Deref(heap, runs[2].result).success


(***************************************************************************)
(* C26: with fail_fast=True the missing-predecessor error never occurs:    *)
(* whenever a stage starts, the output slots of all earlier stages are     *)
(* non-None, and no StageMetrics of such a run carries a                   *)
(* 'No ... available for ...' error.                                       *)
(***************************************************************************)
MissingInputMessages == {Str(MissingInput(i)) : i \in 2..NStages}

C26_NoMissingInputUnderFailFast ==
    fail_fast =>
        /\ pc \in {"loop", "await"} => \A k \in 1..(idx - 1) : ~Not(result[Slot[k]])
        /\ \A k \in 1..Len(Entries) : Entries[k].error \notin MissingInputMessages
        /\ \A k \in 1..Len(raised) : raised[k].exc.cls # "PipelineError"

C26_Witness ==
    /\ fail_fast
    /\ pc = "await"
    /\ idx = NStages
    /\ \A k \in 1..(NStages - 1) : ~Not(result[Slot[k]])

(***************************************************************************)
(* C27: in every state of a run and in the returned PipelineResult,        *)
(* metrics.stages is a prefix of the fixed stage order: its i-th entry is  *)
(* named after the i-th stage (no name twice, no stage skipped), and       *)
(* entries already appended are never changed or removed.                  *)
(***************************************************************************)
C27_EntriesArePrefix ==
    /\ Len(Entries) <= NStages
    /\ \A i \in 1..Len(Entries) : Entries[i].stage = stages[i]

C27_AppendOnly ==
    [][ /\ Len(result'.metrics.stages) >= Len(Entries)
        /\ \A i \in 1..Len(Entries) : result'.metrics.stages[i] = Entries[i] ]_allVars

C27_PrefixAppendOnly == []C27_EntriesArePrefix /\ C27_AppendOnly

C27_Witness ==
    /\ Returned
    /\ ~fail_fast
    /\ Len(Entries) = NStages
    /\ ~Entries[2].success
    /\ ~Entries[3].success


(***************************************************************************)
(* C28: if every invoked stage operation eventually returns or raises,     *)
(* run() eventually returns, after invoking at most six stage operations:  *)
(* it ends at the first failing stage (fail_fast=True) or after the        *)
(* feedback stage has been attempted.                                      *)
(***************************************************************************)
EndedAtFirstFailure ==
    /\ fail_fast
    /\ Entries # <<>>
    /\ ~Entries[Len(Entries)].success
    /\ \A k \in 1..(Len(Entries) - 1) : Entries[k].success

FeedbackAttempted == Len(Entries) = NStages /\ Entries[NStages].stage = "feedback"

C28_RunTerminates ==
    /\ (pc = "loop") ~> Returned
    /\ [](Len(calls) <= NStages)
    /\ [](Returned => (EndedAtFirstFailure \/ FeedbackAttempted))

C28_Witness ==
    /\ Returned
    /\ ~fail_fast
    /\ FeedbackAttempted
    /\ ~Entries[1].success
    /\ Len(calls) = 1

C28_WitnessFailFast ==
    /\ Returned
    /\ EndedAtFirstFailure
    /\ Len(Entries) = 3


(***************************************************************************)
(* C29: ConditionalAlertEmitter.decide returns at least one decision for   *)
(* every SimulationResult and configuration: one decision per scenario     *)
(* that is not the baseline and meets both the min_probability and the     *)
(* min_risk_level thresholds, or, when no scenario qualifies, exactly one  *)
(* fallback decision of type REPORT; its output never fails the            *)
(* 'No decisions generated' gate.                                          *)
(***************************************************************************)
\* the scenarios the claim counts: over both thresholds, not the baseline
Qualifying(config, simulation) ==
    SelectSeq(simulation.scenarios,
              LAMBDA s : /\ ~FracLess(s.probability, config.min_probability)
                         /\ RISK_RANK[s.risk_level] >= RISK_RANK[config.min_risk_level]
                         /\ s.name # "baseline (status quo)")

DecisionsAsClaimed(config, simulation, decisions) ==
    LET q == Qualifying(config, simulation)
    IN  IF q = <<>>
        THEN Len(decisions) = 1 /\ decisions[1].decision_type = "report"
        ELSE /\ Len(decisions) = Len(q)
             /\ \A k \in 1..Len(q) : decisions[k].source_scenarios = <<q[k].scenario_id>>

C29_AtLeastOneDecision ==
    alert # None =>
        /\ alert.exc = None
        /\ alert.value # None
        /\ Len(alert.value.decisions) >= 1
        /\ DecisionsAsClaimed(alert.config, alert.simulation, alert.value.decisions)
        /\ ValidateTransition(TRUE, "decision", alert.value) = None

\* the part that holds: whenever decide returns, its output is as claimed
C29_DecisionsWhenReturned ==
    (alert # None /\ alert.exc = None) =>
        /\ Len(alert.value.decisions) >= 1
        /\ DecisionsAsClaimed(alert.config, alert.simulation, alert.value.decisions)
        /\ ValidateTransition(TRUE, "decision", alert.value) = None

C29_ReturnedWitness ==
    /\ alert # None
    /\ alert.exc = None
    /\ Len(alert.value.decisions) = 2

C29_FallbackWitness ==
    /\ alert # None
    /\ alert.exc = None
    /\ alert.value.decisions[1].decision_type = "report"


(***************************************************************************)
(* C30: a registration under (stage, name) changes only that entry: for    *)
(* every other key, the same name under another stage kind included,       *)
(* get_plugin gives what it gave before; get_plugin and list_plugins never *)
(* change the registry.                                                    *)
(***************************************************************************)
\* what get_plugin gives for a key: the class, or that it raises
Lookup(reg, stage, name) ==
    LET r == GetPlugin(reg, stage, name)
    IN  [value |-> r.value, raises |-> IF r.exc = None THEN NoneStr ELSE r.exc.cls]

C30_RegistryFrame ==
    [][ /\ last'.op = "register" =>
              \A stage \in StageArgs, name \in Names :
                  <<stage, name>> # <<last'.stage, last'.name>> =>
                      Lookup(REGISTRY', stage, name) = Lookup(REGISTRY, stage, name)
        /\ last'.op \in {"get_plugin", "list_plugins"} => REGISTRY' = REGISTRY
      ]_allVars

C30_Witness ==
    /\ last.op = "register"
    /\ last.stage = "model"
    /\ last.name = "test_dummy"
    /\ last.cls = "Second"
    /\ Lookup(REGISTRY, "model", "test_dummy").value = "Second"
    /\ Lookup(REGISTRY, "collector", "test_dummy").value = "First"
    /\ Lookup(REGISTRY, "model", "overwrite_me").value = "First"


====
